---- MODULE Spec2Model ----
(***************************************************************************)
(* HomeostaticResilienceModel (src/hrf_dashboard.py) and the Streamlit     *)
(* script that drives it.                                                  *)
(*                                                                         *)
(* Numbers.  Metric values are carried as integers.  The two policy       *)
(* scores, which the dashboard's sliders supply as reals in [0,1], are    *)
(* carried in hundredths.  The quotients of sdg_alignment_score            *)
(* (x/1000, x/100, x/10) are real divisions; scores are carried in units   *)
(* of 1/ScoreScale so that every quotient of an integer metric is exact.   *)
(* The threshold limits 1.5, 0.3, 0.05 are carried in units of             *)
(* 1/ThresholdScale.                                                       *)
(***************************************************************************)
EXTENDS Integers, Sequences, FiniteSets, TLC

VARIABLES
    system_state,   \* self.system_state : metric name -> running total
    history,        \* self.history : sequence of intervention records
    thresholds,     \* self.thresholds
    sdg_targets,    \* self.sdg_targets
    now,            \* the clock read by datetime.datetime.now()
    op,             \* the last method called on the model instance
    result,         \* what that call returned
    calls,          \* log of the add_intervention calls made on the instance
    pc,             \* position of the dashboard script
    selected_template, \* the "Choose Template" selectbox
    session_state,  \* st.session_state: the five keyed input widgets' values
    template_file,  \* saved_templates.json: whether it exists, and its content
    templates,      \* the script's templates dict
    file_writes     \* how many times the script has written the template file

vars == <<system_state, history, thresholds, sdg_targets, now, op, result,
          calls, pc, selected_template, session_state, template_file,
          templates, file_writes>>

modelvars == <<system_state, history, thresholds, sdg_targets>>

dashvars == <<pc, selected_template, session_state, template_file, templates,
              file_writes>>

----------------------------------------------------------------------------
(* Bounds *)

MaxCalls == 3
MaxTime == 1
MaxFileWrites == 1

(* Units *)

ScoreScale == 1000
ThresholdScale == 100

----------------------------------------------------------------------------
(* Helpers *)

Max(a, b) == IF a >= b THEN a ELSE b

Range(s) == {s[i] : i \in 1..Len(s)}

None == "None"

NaN == "NaN"

----------------------------------------------------------------------------
(* HomeostaticResilienceModel.__init__ *)

InitSdgTargets ==
    [ecological |-> <<"SDG 6", "SDG 7", "SDG 12", "SDG 13", "SDG 15">>,
     social |-> <<"SDG 1", "SDG 3", "SDG 4", "SDG 5", "SDG 10", "SDG 11">>,
     economic |-> <<"SDG 8", "SDG 9">>,
     institutional |-> <<"SDG 16", "SDG 17">>]

(* the threshold table keyed by tracked metric names *)
InitThresholdsRenamed ==
    [carbon_emissions |-> 150,
     affordable_housing_units |-> 30,
     green_jobs_created |-> 5]

InitThresholds ==
    [carbon_budget |-> 150,
     housing_affordability_index |-> 30,
     job_creation_rate |-> 5]

InitSystemState ==
    [carbon_emissions |-> 0,
     affordable_housing_units |-> 0,
     green_jobs_created |-> 0,
     policy_adaptability_score |-> 0,
     community_participation_score |-> 0]

NewModel ==
    [system_state |-> InitSystemState,
     history |-> <<>>,
     thresholds |-> InitThresholds,
     sdg_targets |-> InitSdgTargets]

----------------------------------------------------------------------------
(* add_intervention: the loop over impacts.items().  st is the pair of     *)
(* self.system_state and intervention_result after the keys already        *)
(* visited; keys are the keys still to visit.  A dict holds each key once, *)
(* and the keys are handled independently, so the visiting order is        *)
(* immaterial.                                                             *)

(* Variants of the loop body, each one slip away from lines 49-51 *)

(* "=" for "+=" on line 50 *)
ImpactStepAssign(st, key, value) ==
    IF key \in DOMAIN st.state
    THEN LET updated == [st.state EXCEPT ![key] = value]
         IN  [state |-> updated,
              rec |-> (key :> updated[key]) @@ st.rec]
    ELSE st

(* line 51 storing value, the delta, instead of self.system_state[key] *)
ImpactStepDelta(st, key, value) ==
    IF key \in DOMAIN st.state
    THEN LET updated == [st.state EXCEPT ![key] = @ + value]
         IN  [state |-> updated,
              rec |-> (key :> value) @@ st.rec]
    ELSE st

(* line 49 dropped, with self.system_state.get(key, 0) + value on line 50 *)
ImpactStepNoCheck(st, key, value) ==
    LET old == IF key \in DOMAIN st.state THEN st.state[key] ELSE 0
        updated == (key :> old + value) @@ st.state
    IN  [state |-> updated,
         rec |-> (key :> updated[key]) @@ st.rec]

ImpactStep(st, key, value) ==
    IF key \in DOMAIN st.state
    THEN LET updated == [st.state EXCEPT ![key] = @ + value]
         IN  [state |-> updated,
              rec |-> (key :> updated[key]) @@ st.rec]
    ELSE st

RECURSIVE ImpactLoop(_, _, _)
ImpactLoop(st, impacts, keys) ==
    IF keys = {} THEN st
    ELSE LET key == CHOOSE k \in keys : TRUE
         IN  ImpactLoop(ImpactStep(st, key, impacts[key]), impacts, keys \ {key})

(* line 52 as self.history.insert(0, intervention_result) *)
add_interventionPrepend(state, hist, name, impacts, timestamp) ==
    LET intervention_result == ("name" :> name) @@ ("timestamp" :> timestamp)
        done == ImpactLoop([state |-> state, rec |-> intervention_result],
                           impacts, DOMAIN impacts)
    IN  [system_state |-> done.state,
         history |-> <<done.rec>> \o hist]

add_intervention(state, hist, name, impacts, timestamp) ==
    LET intervention_result == ("name" :> name) @@ ("timestamp" :> timestamp)
        done == ImpactLoop([state |-> state, rec |-> intervention_result],
                           impacts, DOMAIN impacts)
    IN  [system_state |-> done.state,
         history |-> Append(hist, done.rec)]

(* assess_homeostasis *)

assess_homeostasis(th, state) ==
    [metric \in {m \in DOMAIN th : m \in DOMAIN state} |->
        [value |-> state[metric],
         threshold |-> th[metric],
         status |-> IF state[metric] * ThresholdScale <= th[metric]
                    THEN "stable" ELSE "unstable"]]

(* sdg_alignment_score *)

(* line 68 with the score also clamped above, min(100, max(0, ...)) *)
sdg_alignment_scoreClamped(targets, state) ==
    LET sdg_scores == [sdg \in UNION {Range(targets[group]) : group \in DOMAIN targets} |-> 0]
        raw == Max(0, 100 * ScoreScale - (state["carbon_emissions"] * ScoreScale) \div 1000)
        s13 == IF raw > 100 * ScoreScale THEN 100 * ScoreScale ELSE raw
        s11 == (state["affordable_housing_units"] * ScoreScale) \div 100
        s8  == (state["green_jobs_created"] * ScoreScale) \div 10
    IN  ("SDG 8" :> s8) @@ ("SDG 11" :> s11) @@ ("SDG 13" :> s13) @@ sdg_scores

(* line 68 without max(0, ...) *)
sdg_alignment_scoreNoMax(targets, state) ==
    LET sdg_scores == [sdg \in UNION {Range(targets[group]) : group \in DOMAIN targets} |-> 0]
        s13 == 100 * ScoreScale - (state["carbon_emissions"] * ScoreScale) \div 1000
        s11 == (state["affordable_housing_units"] * ScoreScale) \div 100
        s8  == (state["green_jobs_created"] * ScoreScale) \div 10
    IN  ("SDG 8" :> s8) @@ ("SDG 11" :> s11) @@ ("SDG 13" :> s13) @@ sdg_scores

(* a fourth formula, scoring SDG 16 from policy_adaptability_score *)
sdg_alignment_scoreInstitutional(targets, state) ==
    LET sdg_scores == [sdg \in UNION {Range(targets[group]) : group \in DOMAIN targets} |-> 0]
        s13 == Max(0, 100 * ScoreScale - (state["carbon_emissions"] * ScoreScale) \div 1000)
        s11 == (state["affordable_housing_units"] * ScoreScale) \div 100
        s8  == (state["green_jobs_created"] * ScoreScale) \div 10
        s16 == state["policy_adaptability_score"] * ScoreScale
    IN  ("SDG 16" :> s16) @@ ("SDG 8" :> s8) @@ ("SDG 11" :> s11) @@ ("SDG 13" :> s13) @@ sdg_scores

sdg_alignment_score(targets, state) ==
    LET sdg_scores == [sdg \in UNION {Range(targets[group]) : group \in DOMAIN targets} |-> 0]
        s13 == Max(0, 100 * ScoreScale - (state["carbon_emissions"] * ScoreScale) \div 1000)
        s11 == (state["affordable_housing_units"] * ScoreScale) \div 100
        s8  == (state["green_jobs_created"] * ScoreScale) \div 10
    IN  ("SDG 8" :> s8) @@ ("SDG 11" :> s11) @@ ("SDG 13" :> s13) @@ sdg_scores

(* get_history_dataframe: pd.DataFrame(list of dicts) has one row per     *)
(* dict and the union of the dicts' keys as columns; a missing cell is NaN *)

get_history_dataframe(hist) ==
    LET columns == UNION {DOMAIN hist[i] : i \in 1..Len(hist)}
    IN  [columns |-> columns,
         rows |-> [i \in 1..Len(hist) |->
                     [c \in columns |-> IF c \in DOMAIN hist[i] THEN hist[i][c] ELSE NaN]]]

----------------------------------------------------------------------------
(* Inputs of the library-level specification *)

Metrics == DOMAIN InitSystemState

ThresholdKeys == DOMAIN InitThresholds

E2EImpacts ==
    [carbon_emissions |-> -20000,
     affordable_housing_units |-> 10000,
     green_jobs_created |-> 750]

ImpactsInputs ==
    { [not_a_metric |-> 999],
      [carbon_budget |-> 1, housing_affordability_index |-> 1, job_creation_rate |-> 1],
      [carbon_emissions |-> 5000],
      [carbon_emissions |-> 200000],
      E2EImpacts,
      [policy_adaptability_score |-> 30, community_participation_score |-> 20,
       not_a_metric |-> 999] }

(* The calls offered: every impacts mapping under the name "x", and the    *)
(* end-to-end scenario also under the name of its template                 *)
CallInputs ==
    {[name |-> "x", impacts |-> i] : i \in ImpactsInputs}
    \cup {[name |-> "Green Housing & Jobs", impacts |-> E2EImpacts]}

ReadOps == {"assess_homeostasis", "sdg_alignment_score", "get_history_dataframe"}

----------------------------------------------------------------------------
(* A program that constructs one model and calls its methods in any order *)

Init ==
    /\ system_state = NewModel.system_state
    /\ history = NewModel.history
    /\ thresholds = NewModel.thresholds
    /\ sdg_targets = NewModel.sdg_targets
    /\ now \in 0..MaxTime
    /\ op = "__init__"
    /\ result = None
    /\ calls = <<>>
    /\ pc = "library"
    /\ selected_template = None
    /\ session_state = <<>>
    /\ template_file = [exists |-> FALSE, content |-> <<>>]
    /\ templates = <<>>
    /\ file_writes = 0

AddIntervention ==
    /\ Len(calls) < MaxCalls
    /\ \E call \in CallInputs, t \in now..MaxTime :
          LET r == add_intervention(system_state, history, call.name, call.impacts, t)
          IN  /\ system_state' = r.system_state
              /\ history' = r.history
              /\ now' = t
              /\ calls' = Append(calls, call)
    /\ op' = "add_intervention"
    /\ result' = None
    /\ UNCHANGED <<thresholds, sdg_targets, dashvars>>

AssessHomeostasis ==
    /\ op' = "assess_homeostasis"
    /\ result' = assess_homeostasis(thresholds, system_state)
    /\ UNCHANGED <<system_state, history, thresholds, sdg_targets, now, calls, dashvars>>

(* the scores written into self.system_state instead of a local dict *)
SdgAlignmentScoreStores ==
    /\ op' = "sdg_alignment_score"
    /\ result' = sdg_alignment_score(sdg_targets, system_state)
    /\ system_state' = result' @@ system_state
    /\ UNCHANGED <<history, thresholds, sdg_targets, now, calls, dashvars>>

SdgAlignmentScore ==
    /\ op' = "sdg_alignment_score"
    /\ result' = sdg_alignment_score(sdg_targets, system_state)
    /\ UNCHANGED <<system_state, history, thresholds, sdg_targets, now, calls, dashvars>>

GetHistoryDataframe ==
    /\ op' = "get_history_dataframe"
    /\ result' = get_history_dataframe(history)
    /\ UNCHANGED <<system_state, history, thresholds, sdg_targets, now, calls, dashvars>>

Next ==
    \/ AddIntervention
    \/ AssessHomeostasis
    \/ SdgAlignmentScore
    \/ GetHistoryDataframe

Spec == Init /\ [][Next]_vars

----------------------------------------------------------------------------
(* The Streamlit script, lines 76-173.  Streamlit runs the whole script    *)
(* again, top to bottom, on every user interaction.  The template file     *)
(* outlives the runs and the sessions; st.session_state outlives the runs  *)
(* of one session.  Template entries, in the script and in the file, are   *)
(* mappings with the five metric keys, as line 102 writes them.            *)

(* lines 92-96 *)
BuiltinTemplates ==
    [t \in {"Aggressive Decarbonization", "Green Housing & Jobs", "Community-Led Retrofits"} |->
        CASE t = "Aggressive Decarbonization" ->
               [carbon_emissions |-> -50000, affordable_housing_units |-> 5000,
                green_jobs_created |-> 200, policy_adaptability_score |-> 30,
                community_participation_score |-> 20]
          [] t = "Green Housing & Jobs" ->
               [carbon_emissions |-> -20000, affordable_housing_units |-> 10000,
                green_jobs_created |-> 750, policy_adaptability_score |-> 15,
                community_participation_score |-> 25]
          [] t = "Community-Led Retrofits" ->
               [carbon_emissions |-> -10000, affordable_housing_units |-> 3000,
                green_jobs_created |-> 500, policy_adaptability_score |-> 20,
                community_participation_score |-> 40]]

(* list(templates.keys())[0]: the literal's first key keeps its place      *)
(* through update() and through line 102                                   *)
FirstTemplate == "Aggressive Decarbonization"

(* load_templates: the file's content, {} when there is no file.  The file *)
(* holds what json.dump wrote: string keys and numbers, which json.load    *)
(* gives back unchanged.                                                   *)
load_templates(file) ==
    IF file.exists THEN file.content ELSE <<>>

(* save_templates: the file is created or overwritten with the whole dict *)
save_templates(dict) ==
    [exists |-> TRUE, content |-> dict]

(* dict.update(other) *)
Update(dict, other) ==
    [k \in DOMAIN dict \cup DOMAIN other |->
        IF k \in DOMAIN other THEN other[k] ELSE dict[k]]

(* del dict[key] *)
Del(dict, key) == [k \in DOMAIN dict \ {key} |-> dict[k]]

(* dict.get(key, default) *)
Get(dict, key, default) == IF key \in DOMAIN dict THEN dict[key] ELSE default

(* lines 102-108: the entry "Save Current as Template" stores *)
CurrentAsTemplate(state) ==
    [carbon_emissions |-> Get(state, "carbon", -10000),
     affordable_housing_units |-> Get(state, "housing", 5000),
     green_jobs_created |-> Get(state, "jobs", 300),
     policy_adaptability_score |-> Get(state, "adaptability", 20),
     community_participation_score |-> Get(state, "participation", 20)]

(* lines 124-128: the widgets' defaults are the selected template's values *)
TemplateWidgets(impacts) ==
    [carbon |-> impacts.carbon_emissions,
     housing |-> impacts.affordable_housing_units,
     jobs |-> impacts.green_jobs_created,
     adaptability |-> impacts.policy_adaptability_score,
     participation |-> impacts.community_participation_score]

(* lines 131-137: the impacts built from the widgets' values *)
WidgetImpacts(w) ==
    [carbon_emissions |-> w.carbon,
     affordable_housing_units |-> w.housing,
     green_jobs_created |-> w.jobs,
     policy_adaptability_score |-> w.adaptability,
     community_participation_score |-> w.participation]

(* the model kept across script runs instead of rebuilt on line 87 *)
modelCached ==
    [system_state |-> system_state,
     history |-> history,
     thresholds |-> thresholds,
     sdg_targets |-> sdg_targets]

(* line 87 *)
model == NewModel

(* Inputs: the template files found at start, the names typed into        *)
(* "Create Custom Template Name", and values the user sets the widgets to *)

InitialFiles ==
    { [exists |-> FALSE, content |-> <<>>],
      [exists |-> TRUE, content |->
          ("Custom" :> [carbon_emissions |-> 7, affordable_housing_units |-> 8,
                        green_jobs_created |-> 9, policy_adaptability_score |-> 50,
                        community_participation_score |-> 60])],
      [exists |-> TRUE, content |->
          ("Custom" :> [carbon_emissions |-> 7, affordable_housing_units |-> 8,
                        green_jobs_created |-> 9, policy_adaptability_score |-> 50,
                        community_participation_score |-> 60])
          @@ ("Aggressive Decarbonization" :>
                       [carbon_emissions |-> -10000, affordable_housing_units |-> 5000,
                        green_jobs_created |-> 300, policy_adaptability_score |-> 20,
                        community_participation_score |-> 20])] }

CustomNames == {"Custom", "Aggressive Decarbonization"}

EditedWidgets ==
    { [carbon |-> 5000, housing |-> 0, jobs |-> 1, adaptability |-> 55,
       participation |-> 100] }

(* The page as first rendered in a session: the script has run once, with *)
(* no button pressed, the first template selected and the widgets at its   *)
(* values                                                                  *)
DashInit ==
    /\ system_state = InitSystemState
    /\ history = <<>>
    /\ thresholds = InitThresholds
    /\ sdg_targets = InitSdgTargets
    /\ now \in 0..MaxTime
    /\ op = "__init__"
    /\ result = None
    /\ calls = <<>>
    /\ pc = "idle"
    /\ template_file \in InitialFiles
    /\ templates = Update(BuiltinTemplates, load_templates(template_file))
    /\ selected_template = FirstTemplate
    /\ session_state = TemplateWidgets(templates[FirstTemplate])
    /\ file_writes = 0

(* lines 87-97: an interaction starts a script run, which builds the      *)
(* model and the templates dict                                            *)
DashRerun ==
    /\ pc = "idle"
    /\ system_state' = model.system_state
    /\ history' = model.history
    /\ thresholds' = model.thresholds
    /\ sdg_targets' = model.sdg_targets
    /\ op' = "__init__"
    /\ result' = None
    /\ calls' = <<>>
    /\ templates' = Update(BuiltinTemplates, load_templates(template_file))
    /\ pc' = "sidebar"
    /\ UNCHANGED <<now, selected_template, session_state, template_file, file_writes>>

(* the same in a new session, whose st.session_state starts empty *)
DashNewSession ==
    /\ pc = "idle"
    /\ session_state' = <<>>
    /\ system_state' = model.system_state
    /\ history' = model.history
    /\ thresholds' = model.thresholds
    /\ sdg_targets' = model.sdg_targets
    /\ op' = "__init__"
    /\ result' = None
    /\ calls' = <<>>
    /\ templates' = Update(BuiltinTemplates, load_templates(template_file))
    /\ selected_template' = FirstTemplate
    /\ pc' = "sidebar"
    /\ UNCHANGED <<now, template_file, file_writes>>

(* lines 99-110, a name typed and "Save Current as Template" pressed *)
DashSave ==
    /\ pc = "sidebar"
    /\ file_writes < MaxFileWrites
    /\ \E custom_template_name \in CustomNames :
          /\ templates' = Update(templates,
                 custom_template_name :> CurrentAsTemplate(session_state))
          /\ template_file' = save_templates(templates')
    /\ file_writes' = file_writes + 1
    /\ pc' = "edit"
    /\ UNCHANGED <<system_state, history, thresholds, sdg_targets, now, op, result,
                   calls, selected_template, session_state>>

(* lines 99-101, no name typed or the button not pressed *)
DashNoSave ==
    /\ pc = "sidebar"
    /\ pc' = "edit"
    /\ UNCHANGED <<system_state, history, thresholds, sdg_targets, now, op, result,
                   calls, selected_template, session_state, template_file,
                   templates, file_writes>>

(* lines 112-119, a saved template chosen and "Delete Selected Template"  *)
(* pressed; the script's templates dict keeps the entry for this run       *)
DashDelete ==
    /\ pc = "edit"
    /\ file_writes < MaxFileWrites
    /\ \E edit_template \in DOMAIN load_templates(template_file) :
          LET current_templates == load_templates(template_file)
          IN  template_file' = save_templates(Del(current_templates, edit_template))
    /\ file_writes' = file_writes + 1
    /\ pc' = "widgets"
    /\ UNCHANGED <<system_state, history, thresholds, sdg_targets, now, op, result,
                   calls, selected_template, session_state, templates>>

(* lines 112-114, "None" chosen or the button not pressed *)
DashNoDelete ==
    /\ pc = "edit"
    /\ pc' = "widgets"
    /\ UNCHANGED <<system_state, history, thresholds, sdg_targets, now, op, result,
                   calls, selected_template, session_state, template_file,
                   templates, file_writes>>

(* lines 121-128: the selectbox offers the keys of templates; each widget *)
(* returns the selected template's value or what the user set, and keeps   *)
(* it in st.session_state under its key                                    *)
DashWidgets ==
    /\ pc = "widgets"
    /\ \E t \in DOMAIN templates :
          \E w \in {TemplateWidgets(templates[t])} \cup EditedWidgets :
             /\ selected_template' = t
             /\ session_state' = w
    /\ pc' = "button"
    /\ UNCHANGED <<system_state, history, thresholds, sdg_targets, now, op, result,
                   calls, template_file, templates, file_writes>>

(* line 130, button not pressed: the script ends *)
DashSkip ==
    /\ pc = "button"
    /\ pc' = "idle"
    /\ UNCHANGED <<system_state, history, thresholds, sdg_targets, now, op, result,
                   calls, selected_template, session_state, template_file,
                   templates, file_writes>>

(* lines 130-138 *)
DashEvaluate ==
    /\ pc = "button"
    /\ \E t \in now..MaxTime :
          LET impacts == WidgetImpacts(session_state)
              r == add_intervention(system_state, history, selected_template, impacts, t)
          IN  /\ system_state' = r.system_state
              /\ history' = r.history
              /\ now' = t
              /\ calls' = Append(calls, [name |-> selected_template, impacts |-> impacts])
    /\ op' = "add_intervention"
    /\ result' = None
    /\ pc' = "homeostasis"
    /\ UNCHANGED <<thresholds, sdg_targets, selected_template, session_state,
                   template_file, templates, file_writes>>

(* lines 140-141 *)
DashHomeostasis ==
    /\ pc = "homeostasis"
    /\ op' = "assess_homeostasis"
    /\ result' = assess_homeostasis(thresholds, system_state)
    /\ pc' = "sdg"
    /\ UNCHANGED <<system_state, history, thresholds, sdg_targets, now, calls,
                   selected_template, session_state, template_file, templates,
                   file_writes>>

(* lines 143-149 *)
DashSdg ==
    /\ pc = "sdg"
    /\ op' = "sdg_alignment_score"
    /\ result' = sdg_alignment_score(sdg_targets, system_state)
    /\ pc' = "history"
    /\ UNCHANGED <<system_state, history, thresholds, sdg_targets, now, calls,
                   selected_template, session_state, template_file, templates,
                   file_writes>>

(* lines 151-173: in the run that pressed "Evaluate Intervention" the two  *)
(* download buttons are not pressed, and the script ends                   *)
DashHistory ==
    /\ pc = "history"
    /\ op' = "get_history_dataframe"
    /\ result' = get_history_dataframe(history)
    /\ pc' = "idle"
    /\ UNCHANGED <<system_state, history, thresholds, sdg_targets, now, calls,
                   selected_template, session_state, template_file, templates,
                   file_writes>>

DashNext ==
    \/ DashRerun
    \/ DashNewSession
    \/ DashSave
    \/ DashNoSave
    \/ DashDelete
    \/ DashNoDelete
    \/ DashWidgets
    \/ DashSkip
    \/ DashEvaluate
    \/ DashHomeostasis
    \/ DashSdg
    \/ DashHistory

SpecDash == DashInit /\ [][DashNext]_vars

----------------------------------------------------------------------------
(* Properties *)

Last(s) == s[Len(s)]

Recognized(impacts) == DOMAIN impacts \cap Metrics

(* The sum of the deltas the calls of log supplied under key *)
RECURSIVE SuppliedSum(_, _)
SuppliedSum(log, key) ==
    IF log = <<>> THEN 0
    ELSE SuppliedSum(SubSeq(log, 1, Len(log) - 1), key)
         + (IF key \in DOMAIN Last(log).impacts THEN Last(log).impacts[key] ELSE 0)

(* C1 (P1, accumulation): after any sequence of add_intervention calls on  *)
(* a model that started all-zero, every tracked metric equals the sum of   *)
(* the deltas supplied under its name over all calls; the keys that are    *)
(* not tracked metrics add to no metric, and the tracked key set stays the *)
(* five metrics.                                                           *)
AccumulationP1 ==
    /\ DOMAIN system_state = Metrics
    /\ \A m \in Metrics : system_state[m] = SuppliedSum(calls, m)

AccumulationP1Witness ==
    /\ Len(calls) = 3
    /\ system_state["carbon_emissions"] = -15000
    /\ system_state["affordable_housing_units"] = 10000
    /\ \E i \in 1..Len(calls) : "not_a_metric" \in DOMAIN calls[i].impacts

(* C2 (P3, snapshot): the record appended by the Nth call has, besides     *)
(* name and timestamp, exactly the recognized keys of that call's impacts, *)
(* each holding the metric's cumulative value right after that call (the   *)
(* sum of the deltas of calls 1..N, which for the latest record is the     *)
(* current system_state value), not the delta and not the earlier value.   *)
SnapshotP3 ==
    /\ Len(history) = Len(calls)
    /\ \A n \in 1..Len(history) :
          /\ DOMAIN history[n] = {"name", "timestamp"} \cup Recognized(calls[n].impacts)
          /\ \A k \in Recognized(calls[n].impacts) :
                /\ history[n][k] = SuppliedSum(SubSeq(calls, 1, n), k)
                /\ n = Len(history) => history[n][k] = system_state[k]

SnapshotP3Witness ==
    /\ Len(history) = 2
    /\ calls[1].impacts = [carbon_emissions |-> 5000]
    /\ calls[2].impacts = E2EImpacts
    /\ history[1]["carbon_emissions"] = 5000
    /\ history[2]["carbon_emissions"] = -15000
    /\ "policy_adaptability_score" \notin DOMAIN history[2]

(* C3 (P2, append-only): the history has one record per call, in call      *)
(* order, and no step removes, reorders or changes a record already there. *)
AppendOnlyP2 ==
    [][ /\ Len(history') = Len(calls')
        /\ \A i \in 1..Len(history') : history'[i]["name"] = calls'[i].name
        /\ Len(history') \in {Len(history), Len(history) + 1}
        /\ SubSeq(history', 1, Len(history)) = history ]_vars

AppendOnlyP2Witness ==
    /\ Len(history) = 3
    /\ history[1]["name"] = "x"
    /\ history[2]["name"] = "Green Housing & Jobs"
    /\ calls[1].impacts = [carbon_emissions |-> 5000]
    /\ calls[3].impacts = [carbon_emissions |-> 200000]
    /\ history[1]["carbon_emissions"] = 5000
    /\ history[3]["carbon_emissions"] = 185000
    /\ op = "get_history_dataframe"

(* C4 (P6, unknown keys): a call whose impacts has only unrecognized keys  *)
(* leaves system_state as it was and appends exactly one record, which has *)
(* the fields name and timestamp and nothing else.                         *)
UnknownKeyP6 ==
    [][ (Len(calls') = Len(calls) + 1 /\ Recognized(Last(calls').impacts) = {})
        => /\ system_state' = system_state
           /\ history' = Append(history, Last(history'))
           /\ DOMAIN Last(history') = {"name", "timestamp"} ]_vars

UnknownKeyP6Witness ==
    /\ op = "add_intervention"
    /\ Len(calls) = 2
    /\ Last(calls).impacts = [not_a_metric |-> 999]
    /\ DOMAIN Last(history) = {"name", "timestamp"}
    /\ system_state["carbon_emissions"] = 5000

(* The end-to-end scenario: one call so far, with E2EImpacts *)
E2EOnly == Len(calls) = 1 /\ calls[1].impacts = E2EImpacts

(* C5 (end-to-end scenario) as stated: after the single call with          *)
(* E2EImpacts, SDG 13 = 100, SDG 11 = 100, SDG 8 = 75, history length 1.   *)
E2EScenarioAsStated ==
    (E2EOnly /\ op = "sdg_alignment_score")
    => /\ result["SDG 13"] = 100 * ScoreScale
       /\ result["SDG 11"] = 100 * ScoreScale
       /\ result["SDG 8"] = 75 * ScoreScale
       /\ Len(history) = 1

(* C5 amended: after the single call with E2EImpacts, SDG 13 = 120 (the    *)
(* score has no upper clamp), SDG 11 = 100, SDG 8 = 75, history length 1.  *)
E2EScenario ==
    (E2EOnly /\ op = "sdg_alignment_score")
    => /\ result["SDG 13"] = 120 * ScoreScale
       /\ result["SDG 11"] = 100 * ScoreScale
       /\ result["SDG 8"] = 75 * ScoreScale
       /\ Len(history) = 1

E2EScenarioWitness ==
    /\ E2EOnly
    /\ op = "sdg_alignment_score"
    /\ system_state["carbon_emissions"] = -20000
    /\ result["SDG 8"] = 75 * ScoreScale

(* C6 (P4, lower clamp): the SDG 13 score returned is                      *)
(* max(0, 100 - carbon_emissions/1000): never negative, 0 from             *)
(* carbon_emissions = 100000 upwards, 95 at 5000 and 0 at 200000.          *)
Sdg13LowerClampP4 ==
    op = "sdg_alignment_score"
    => LET ce == system_state["carbon_emissions"]
           s == result["SDG 13"]
       IN  /\ s >= 0
           /\ ce >= 100000 => s = 0
           /\ ce < 100000 => s * 1000 = (100000 - ce) * ScoreScale
           /\ ce = 5000 => s = 95 * ScoreScale
           /\ ce = 200000 => s = 0

Sdg13LowerClampP4Witness ==
    /\ op = "sdg_alignment_score"
    /\ system_state["carbon_emissions"] = 200000
    /\ result["SDG 13"] = 0

(* C7: the homeostasis report is empty in every state, also after calls    *)
(* that used the threshold names as impact keys: no threshold key is a     *)
(* system_state key.                                                       *)
HomeostasisAlwaysEmpty ==
    /\ DOMAIN thresholds \cap DOMAIN system_state = {}
    /\ DOMAIN assess_homeostasis(thresholds, system_state) = {}
    /\ op = "assess_homeostasis" => DOMAIN result = {}

HomeostasisAlwaysEmptyWitness ==
    /\ op = "assess_homeostasis"
    /\ result = <<>>
    /\ \E i \in 1..Len(calls) : ThresholdKeys \subseteq DOMAIN calls[i].impacts

(* C8: a step that is a read call (assess_homeostasis,                     *)
(* sdg_alignment_score, get_history_dataframe) leaves system_state,        *)
(* history, thresholds and sdg_targets unchanged.                          *)
ReadsArePure ==
    [][ op' \in ReadOps => UNCHANGED modelvars ]_vars

ReadsArePureWitness ==
    /\ op = "get_history_dataframe"
    /\ Len(result.rows) = 2
    /\ Len(history) = 2
    /\ system_state["green_jobs_created"] = 750

(* The 15 identifiers listed on lines 22-25 *)
AllSdgs ==
    {"SDG 1", "SDG 3", "SDG 4", "SDG 5", "SDG 6", "SDG 7", "SDG 8", "SDG 9",
     "SDG 10", "SDG 11", "SDG 12", "SDG 13", "SDG 15", "SDG 16", "SDG 17"}

(* C9 (P5): the scores returned have an entry for each of the 15 SDG       *)
(* identifiers of sdg_targets, and every one other than SDG 13, SDG 11,    *)
(* SDG 8 is 0 whatever the state.                                          *)
UnscoredSdgsP5 ==
    op = "sdg_alignment_score"
    => /\ DOMAIN result = AllSdgs
       /\ Cardinality(DOMAIN result) = 15
       /\ \A sdg \in AllSdgs \ {"SDG 13", "SDG 11", "SDG 8"} : result[sdg] = 0

UnscoredSdgsP5Witness ==
    /\ op = "sdg_alignment_score"
    /\ system_state["policy_adaptability_score"] = 60
    /\ system_state["community_participation_score"] = 40
    /\ system_state["carbon_emissions"] = 5000
    /\ result["SDG 16"] = 0

(* C10: in the dashboard every script run works on a model built in that   *)
(* run, calls add_intervention at most once and before any read, so the    *)
(* history the reads see has one record and the system_state they see is   *)
(* exactly the impacts of the current interaction.                         *)
DashPerInteraction ==
    /\ Len(calls) <= 1
    /\ Len(history) <= 1
    /\ op = "__init__" => system_state = InitSystemState /\ history = <<>>
    /\ op \in ReadOps => Len(calls) = 1
    /\ pc \in {"sidebar", "edit", "widgets", "button"} => Len(calls) = 0 /\ op = "__init__"
    /\ op \in ReadOps \cup {"add_intervention"}
         => /\ Len(history) = 1
            /\ history[1]["name"] = selected_template
            /\ system_state = WidgetImpacts(session_state)

DashPerInteractionWitness ==
    /\ pc = "idle"
    /\ op = "get_history_dataframe"
    /\ Len(result.rows) = 1
    /\ selected_template = "Custom"
    /\ history[1]["name"] = "Custom"
    /\ system_state["carbon_emissions"] = 7
    /\ file_writes = 1
    /\ templates["Aggressive Decarbonization"].carbon_emissions = -10000

====
